---- MODULE Spec2Model ----
(***************************************************************************)
(* Model of the RAG storage-and-retrieval core of ai-tutor-app             *)
(* (RAG18Nov2025-1): document ingestion into the Chroma collection         *)
(* (educator_routes.py, startup_init.py, text_chunker.py,                  *)
(* embeddings_generator.py, chroma_uploader.py, document_deleter.py) and   *)
(* diversity-first retrieval (retriever.py, metadata_filter.py).           *)
(*                                                                         *)
(* The specifications share the variables:                                 *)
(*   Spec          concurrent ingestions and deletions on the collection   *)
(*   SpecRetrieve  one retrieve_context call on a populated collection     *)
(*   SpecEmbed     one generate_embeddings call on many chunk texts        *)
(*   SpecDelete    delete operations and the outcome their caller sees     *)
(*   SpecPool      one retrieve_context call over many listed documents    *)
(*   SpecUpload    one upload_to_chroma call on any chunks and embeddings  *)
(***************************************************************************)
EXTENDS Integers, Sequences, FiniteSets, TLC

VARIABLES
    store,              \* the Chroma collection: records in insertion order
    ingest,             \* per upload / script request: the ingestion it runs
    deleted,            \* outcome of the latest delete operation
    rpc,                \* position of the retrieve_context call
    query,              \* embedding class of the query text
    document_ids,       \* retrieve_context argument
    top_k,              \* retrieve_context argument
    matches,            \* pool returned by query_with_filter
    selected_matches,   \* retriever.py:53
    docs_covered,       \* retriever.py:54
    context,            \* rendered blocks of the returned context
    stats,              \* the figures retrieve_context logs at its end
    calls               \* provider / store calls made by retrieve_context

vars == <<store, ingest, deleted, rpc, query, document_ids, top_k, matches,
          selected_matches, docs_covered, context, stats, calls>>

ingestVars == <<store, ingest, deleted>>
retrVars == <<rpc, query, document_ids, top_k, matches, selected_matches,
              docs_covered, context, stats, calls>>

(***************************************************************************)
(* Bounds                                                                  *)
(***************************************************************************)
MaxChunks == 2      \* most chunks of a short document
LongChunks == 10    \* chunks of the one long, single-topic document
MaxTopK == 3        \* largest top_k passed to retrieve_context
MaxBatches == 3     \* most provider batches of one generate_embeddings call
MaxPoolDocs == 11   \* most documents listed in a call over the large collection
MaxPoolTopK == 34   \* largest top_k of a call over the large collection
PoolChunks == 4     \* most chunks per document of the large collection

Procs == {"p1", "p2"}
Docs == {"d1", "d2", "d3"}
IngestDocs == {"d1", "d2"}
TextVals == {0, 1}          \* chunk texts, abstracted to their embedding class
MaxIds == Cardinality(Docs) \* longest document_ids list (repeats included)
IngestTextVals == {0}       \* chunk texts of the files the requests ingest

Min(a, b) == IF a < b THEN a ELSE b
Max(a, b) == IF a > b THEN a ELSE b

\* all sequences over S of length lo..hi
SeqsOf(S, lo, hi) == UNION {[1..n -> S] : n \in lo..hi}

(***************************************************************************)
(* Uploaded files: what text extraction yields, and the pieces the         *)
(* splitter cuts that text into (none for whitespace-only text).           *)
(***************************************************************************)
NoFile == [extracted |-> FALSE, pieces |-> <<>>]
Files == {NoFile} \cup {[extracted |-> TRUE, pieces |-> s] : s \in SeqsOf(IngestTextVals, 0, MaxChunks)}

(***************************************************************************)
(* embeddings_generator.py: the provider maps a text to its vector.        *)
(***************************************************************************)
Emb(text) == text

\* text_chunker.py chunk_text: empty / blank text gives no chunk
chunk_text(file) == IF ~file.extracted \/ file.pieces = <<>> THEN <<>> ELSE file.pieces

\* mutant: chunk_index counted from 1
chunk_text_with_metadata_one_based(file, document_id) ==
    LET chunks == chunk_text(file) IN
    [i \in 1..Len(chunks) |->
        [text |-> chunks[i],
         document_id |-> document_id,
         chunk_index |-> i,
         chunk_total |-> Len(chunks)]]

\* text_chunker.py chunk_text_with_metadata
chunk_text_with_metadata(file, document_id) ==
    LET chunks == chunk_text(file) IN
    [i \in 1..Len(chunks) |->
        [text |-> chunks[i],
         document_id |-> document_id,
         chunk_index |-> i - 1,
         chunk_total |-> Len(chunks)]]

\* embeddings_generator.py:31
batch_size == 50

\* mutant: the slice runs one text into the next batch
Batch_one_more(texts, i) == SubSeq(texts, i + 1, Min(i + batch_size + 1, Len(texts)))

\* embeddings_generator.py:35: texts[i:i + batch_size], i counted from 0
Batch(texts, i) == SubSeq(texts, i + 1, Min(i + batch_size, Len(texts)))

\* embeddings_generator.py generate_embeddings, when no batch call fails
generate_embeddings(texts) == [i \in 1..Len(texts) |-> Emb(texts[i])]

(***************************************************************************)
(* The collection                                                          *)
(***************************************************************************)
RecordsOf(st, d) == SelectSeq(st, LAMBDA r : r.document_id = d)
CountOf(st, d) == Len(RecordsOf(st, d))
HasId(st, id) == \E i \in 1..Len(st) : st[i].id = id

\* chroma_uploader.py:25-34: the records upload_to_chroma builds
UploadRecords(chunks, embeddings, document_id, attempt) ==
    [i \in 1..Min(Len(chunks), Len(embeddings)) |->
        [id |-> <<document_id, i - 1>>,
         document_id |-> chunks[i].document_id,
         chunk_index |-> chunks[i].chunk_index,
         chunk_total |-> chunks[i].chunk_total,
         text |-> chunks[i].text,
         embedding |-> embeddings[i],
         attempt |-> attempt]]

\* mutant: ids carry the chunk position only and add overwrites an existing id
RECURSIVE CollectionAdd_upsert_by_position(_, _, _, _)
CollectionAdd_upsert_by_position(st, recs, kept, i) ==
    IF i > Len(recs) THEN st
    ELSE IF i \notin kept
         THEN CollectionAdd_upsert_by_position(st, recs, kept, i + 1)
         ELSE CollectionAdd_upsert_by_position(
                 Append(SelectSeq(st, LAMBDA r : r.id[2] # recs[i].id[2]), recs[i]),
                 recs, kept, i + 1)

\* collection.add: a record whose id exists already is skipped; of the
\* others, those in kept reach the index (kept = all of them unless the
\* store drops writes).
RECURSIVE CollectionAdd(_, _, _, _)
CollectionAdd(st, recs, kept, i) ==
    IF i > Len(recs) THEN st
    ELSE IF HasId(st, recs[i].id) \/ i \notin kept
         THEN CollectionAdd(st, recs, kept, i + 1)
         ELSE CollectionAdd(Append(st, recs[i]), recs, kept, i + 1)

\* collection.delete(where={"document_id": d})
CollectionDelete(st, d) == SelectSeq(st, LAMBDA r : r.document_id # d)

\* mutant: accepts any document that has a record
verify_vectors_persisted_nonempty(st, document_id, expected_chunk_count, get_ok) ==
    IF ~get_ok THEN FALSE
    ELSE CountOf(st, document_id) > 0

\* mutant: accepts any count that reaches the expected one
verify_vectors_persisted_at_least(st, document_id, expected_chunk_count, get_ok) ==
    IF ~get_ok THEN FALSE
    ELSE CountOf(st, document_id) >= expected_chunk_count

\* chroma_uploader.py verify_vectors_persisted; get_ok = the store answered
verify_vectors_persisted(st, document_id, expected_chunk_count, get_ok) ==
    IF ~get_ok THEN FALSE
    ELSE CountOf(st, document_id) = expected_chunk_count

(***************************************************************************)
(* Ingestion requests: each element of Procs is one request, run once      *)
(***************************************************************************)
IdleIngest ==
    [pc |-> "idle", kind |-> "none", document_id |-> "none", file |-> NoFile,
     chunks |-> <<>>, embeddings |-> <<>>, nids |-> 0, attempt |-> "none",
     stage |-> "none", message |-> "none", stored_count |-> -1,
     clean |-> FALSE, fresh |-> FALSE, rt |-> "none",
     i |-> 0, all_embeddings |-> <<>>, batches |-> <<>>, inflight |-> 0]

ExtractMsg == "Failed to extract text from file"
ProviderMsg == "embedding provider error"
UploadMsg == "Failed to upload to database"

Fail(p, stage, message) ==
    [ingest EXCEPT ![p].pc = "error", ![p].stage = stage, ![p].message = message]

InUse(d) == \E q \in Procs : ingest[q].document_id = d

\* educator_routes.py upload_document: the id is a fresh uuid4
upload_document(p) ==
    /\ ingest[p].pc = "idle"
    /\ \E d \in IngestDocs, f \in Files :
         /\ CountOf(store, d) = 0
         /\ ~InUse(d)
         /\ ingest' = [ingest EXCEPT ![p] =
                [IdleIngest EXCEPT !.pc = "converting", !.kind = "upload",
                                   !.document_id = d, !.file = f,
                                   !.attempt = p, !.fresh = TRUE]]
    /\ UNCHANGED <<store, deleted, retrVars>>

\* startup_init.py add_document: the caller supplies doc_id
add_document(p) ==
    /\ ingest[p].pc = "idle"
    /\ \E d \in IngestDocs, f \in Files :
         ingest' = [ingest EXCEPT ![p] =
                [IdleIngest EXCEPT !.pc = "converting", !.kind = "script",
                                   !.document_id = d, !.file = f,
                                   !.attempt = p,
                                   !.fresh = (CountOf(store, d) = 0)]]
    /\ UNCHANGED <<store, deleted, retrVars>>

\* mutant: the upload route goes on to chunking whatever the converter gave
convert_to_text_unchecked(p) ==
    /\ ingest[p].pc = "converting"
    /\ ingest' = [ingest EXCEPT ![p].pc = "chunking"]
    /\ UNCHANGED <<store, deleted, retrVars>>

\* educator_routes.py:58-61 (upload: no text aborts); startup_init.py:41-42
\* (script: no check, an unreadable file goes on as the empty text)
convert_to_text(p) ==
    /\ ingest[p].pc = "converting"
    /\ ingest' = IF ingest[p].kind = "upload" /\ ~ingest[p].file.extracted
                 THEN Fail(p, "extraction", ExtractMsg)
                 ELSE [ingest EXCEPT ![p].pc = "chunking"]
    /\ UNCHANGED <<store, deleted, retrVars>>

\* educator_routes.py:73
chunking(p) ==
    /\ ingest[p].pc = "chunking"
    /\ ingest' = [ingest EXCEPT ![p].pc = "embedding",
                    ![p].chunks = chunk_text_with_metadata(ingest[p].file, ingest[p].document_id)]
    /\ UNCHANGED <<store, deleted, retrVars>>

\* educator_routes.py:81: texts = [c["text"] for c in chunks]
Texts(p) == [j \in 1..Len(ingest[p].chunks) |-> ingest[p].chunks[j].text]

\* embeddings_generator.py:24-36: return [] for no texts, else hand the next
\* batch to the provider
embed_call(p) ==
    /\ ingest[p].pc = "embedding"
    /\ ingest' = IF Texts(p) = <<>>
                 THEN [ingest EXCEPT ![p].pc = "storing", ![p].embeddings = <<>>]
                 ELSE [ingest EXCEPT ![p].pc = "embedding_wait",
                          ![p].batches = Append(@, Batch(Texts(p), ingest[p].i)),
                          ![p].inflight = @ + 1]
    /\ UNCHANGED <<store, deleted, retrVars>>

\* mutant: a failing batch ends the loop and what was gathered is returned
embed_return_partial(p) ==
    /\ ingest[p].pc = "embedding_wait"
    /\ \E ok \in BOOLEAN :
         LET batch == ingest[p].batches[Len(ingest[p].batches)]
             got == IF ok THEN ingest[p].all_embeddings \o [j \in 1..Len(batch) |-> Emb(batch[j])]
                    ELSE ingest[p].all_embeddings
             more == ok /\ ingest[p].i + batch_size < Len(Texts(p)) IN
         ingest' = [ingest EXCEPT
                ![p].all_embeddings = got,
                ![p].i = @ + batch_size,
                ![p].inflight = @ - 1,
                ![p].stage = IF ok THEN @ ELSE "embedding",
                ![p].pc = IF more THEN "embedding" ELSE "storing",
                ![p].embeddings = IF more THEN @ ELSE got]
    /\ UNCHANGED <<store, deleted, retrVars>>

\* embeddings_generator.py:36-41, educator_routes.py:82: the provider answers
\* the batch; the loop goes on or generate_embeddings returns.  A provider
\* error propagates as an exception out of generate_embeddings.
embed_return(p) ==
    /\ ingest[p].pc = "embedding_wait"
    /\ \E ok \in BOOLEAN :
         LET batch == ingest[p].batches[Len(ingest[p].batches)]
             got == ingest[p].all_embeddings \o [j \in 1..Len(batch) |-> Emb(batch[j])]
             more == ingest[p].i + batch_size < Len(Texts(p)) IN
         ingest' = IF ok
                   THEN [ingest EXCEPT
                            ![p].all_embeddings = got,
                            ![p].i = @ + batch_size,
                            ![p].inflight = @ - 1,
                            ![p].pc = IF more THEN "embedding" ELSE "storing",
                            ![p].embeddings = IF more THEN @ ELSE got]
                   ELSE [Fail(p, "embedding", ProviderMsg) EXCEPT ![p].inflight = @ - 1]
    /\ UNCHANGED <<store, deleted, retrVars>>

\* chroma_uploader.py:17-43: build the records and collection.add them
upload_add(p) ==
    /\ ingest[p].pc = "storing"
    /\ LET recs == UploadRecords(ingest[p].chunks, ingest[p].embeddings,
                                 ingest[p].document_id, ingest[p].attempt) IN
       \/ /\ ingest' = Fail(p, "store_write", UploadMsg)       \* add raised
          /\ store' = store
       \/ /\ Len(recs) > 0
          /\ \E kept \in SUBSET (1..Len(recs)) :
               store' = CollectionAdd(store, recs, kept, 1)
          /\ ingest' = [q \in Procs |->
                IF q = p THEN [ingest[p] EXCEPT !.pc = "verifying", !.nids = Len(recs)]
                ELSE IF ingest[q].document_id = ingest[p].document_id
                     THEN [ingest[q] EXCEPT !.clean = FALSE]
                     ELSE ingest[q]]
    /\ UNCHANGED <<deleted, retrVars>>

\* mutant: upload_to_chroma returns True without the verification
upload_verify_skipped(p) ==
    /\ ingest[p].pc = "verifying"
    /\ ingest' = [ingest EXCEPT ![p].pc = "stored", ![p].clean = TRUE,
                     ![p].stored_count = ingest[p].nids]
    /\ UNCHANGED <<store, deleted, retrVars>>

\* chroma_uploader.py:45-55: verify, then return True / False
upload_verify(p) ==
    /\ ingest[p].pc = "verifying"
    /\ \E get_ok \in BOOLEAN :
         ingest' = IF verify_vectors_persisted(store, ingest[p].document_id, ingest[p].nids, get_ok)
                   THEN [ingest EXCEPT ![p].pc = "stored", ![p].clean = TRUE,
                            ![p].stored_count = CountOf(store, ingest[p].document_id)]
                   ELSE [Fail(p, "verification", UploadMsg) EXCEPT
                            ![p].stored_count = IF get_ok THEN CountOf(store, ingest[p].document_id) ELSE -1]
    /\ UNCHANGED <<store, deleted, retrVars>>

\* educator_routes.py:95-109: the 'complete' status line
complete(p) ==
    /\ ingest[p].pc = "stored"
    /\ ingest' = [ingest EXCEPT ![p].pc = "complete"]
    /\ UNCHANGED <<store, deleted, retrVars>>

\* a caller's verify_vectors_persisted(document_id, chunks) after 'complete'
verify_after(p) ==
    /\ ingest[p].pc = "complete"
    /\ \E get_ok \in BOOLEAN :
         ingest' = [ingest EXCEPT ![p].pc = "checked",
            ![p].rt = IF ~get_ok THEN "unavailable"
                      ELSE IF verify_vectors_persisted(store, ingest[p].document_id,
                                                       Len(ingest[p].chunks), get_ok)
                           THEN "true" ELSE "false"]
    /\ UNCHANGED <<store, deleted, retrVars>>

\* no delete response has been recorded
NoDelete == [op |-> "none", status |-> "none", zero |-> FALSE,
             store_ok |-> TRUE, changed |-> FALSE]

\* document_deleter.py delete_document_from_chroma: True, or False when the
\* store raised.  watched = the caller's view of the outcome is recorded.
delete_document_from_chroma(d, watched) ==
    /\ \E ok \in BOOLEAN :
         /\ store' = IF ok THEN CollectionDelete(store, d) ELSE store
         /\ ingest' = [q \in Procs |->
                IF ok /\ ingest[q].document_id = d
                THEN [ingest[q] EXCEPT !.clean = FALSE] ELSE ingest[q]]
         /\ deleted' = IF ~watched THEN deleted
                       ELSE [op |-> "delete_document_from_chroma",
                             status |-> IF ok THEN "True" ELSE "False",
                             zero |-> CountOf(store, d) = 0,
                             store_ok |-> ok,
                             changed |-> ok /\ CollectionDelete(store, d) # store]
    /\ UNCHANGED retrVars

\* educator_routes.py delete_document (DELETE /educator/documents/{id}):
\* count the chunks, 404 when there is none, delete, report the count; a
\* store error becomes 500
delete_document(d, watched) ==
    /\ \E get_ok, delete_ok \in BOOLEAN :
         LET chunk_count == CountOf(store, d)
             status == IF ~get_ok THEN "500"
                       ELSE IF chunk_count = 0 THEN "404"
                       ELSE IF ~delete_ok THEN "500"
                       ELSE "200" IN
         /\ store' = IF status = "200" THEN CollectionDelete(store, d) ELSE store
         /\ ingest' = [q \in Procs |->
                IF status = "200" /\ ingest[q].document_id = d
                THEN [ingest[q] EXCEPT !.clean = FALSE] ELSE ingest[q]]
         /\ deleted' = IF ~watched THEN deleted
                       ELSE [op |-> "delete_document",
                             status |-> status,
                             zero |-> chunk_count = 0,
                             store_ok |-> get_ok /\ (chunk_count = 0 \/ delete_ok),
                             changed |-> status = "200" /\ CollectionDelete(store, d) # store]
    /\ UNCHANGED retrVars

(***************************************************************************)
(* Retrieval: metadata_filter.py and retriever.py                          *)
(***************************************************************************)
Queries == {0}
DocOrder == <<"d1", "d2", "d3">>

\* cosine distance between the query vector and a stored vector
Distance(q, e) == IF q >= e THEN q - e ELSE e - q
MaxDistance == CHOOSE m \in TextVals : \A x \in TextVals : x <= m

\* metadata_filter.py create_document_filter
create_document_filter(ids) ==
    IF Len(ids) = 0 THEN [op |-> "none", val |-> {}]
    ELSE IF Len(ids) = 1 THEN [op |-> "$eq", val |-> {ids[1]}]
    ELSE [op |-> "$in", val |-> {ids[i] : i \in 1..Len(ids)}]

\* mutant: the query is sent without its where clause
Where_unfiltered(filter, r) == TRUE

\* collection.query(where=...): does record r pass the filter
Where(filter, r) == filter.op = "none" \/ r.document_id \in filter.val

\* collection.query: the records passing the filter, nearest first, ties in
\* insertion order, cut to n_results
RECURSIVE RankFrom(_, _, _, _)
RankFrom(st, q, filter, dist) ==
    IF dist > MaxDistance THEN <<>>
    ELSE SelectSeq(st, LAMBDA r : Where(filter, r) /\ Distance(q, r.embedding) = dist)
         \o RankFrom(st, q, filter, dist + 1)

CollectionQuery(st, q, n_results, filter) ==
    LET ranked == RankFrom(st, q, filter, 0) IN
    SubSeq(ranked, 1, Min(n_results, Len(ranked)))

\* mutant: the pool is queried over the whole collection
query_with_filter_whole_collection(st, query_embedding, ids, n, ok) ==
    IF ~ok THEN <<>>
    ELSE CollectionQuery(st, query_embedding, n, create_document_filter(<<>>))

\* metadata_filter.py query_with_filter; ok = neither the client nor the
\* query raised
query_with_filter(st, query_embedding, ids, n, ok) ==
    IF ~ok THEN <<>>
    ELSE CollectionQuery(st, query_embedding, n, create_document_filter(ids))

\* retriever.py:22-31
extended_top_k(num_documents, k) ==
    IF num_documents > 10
    THEN Min(num_documents * 3, 150)
    ELSE Max(k * 5, num_documents * 3)

\* retriever.py:42-48: matches_by_doc[doc_id]
matches_by_doc(ms, doc_id) == SelectSeq(ms, LAMBDA m : m.document_id = doc_id)

\* retriever.py:89: the text a match without text is given
EmptyText == -1

InSeq(x, sq) == \E i \in 1..Len(sq) : sq[i] = x

\* mutant: Phase 1 selects the best match but does not record the document
\* as covered
RECURSIVE Phase1_uncovered(_, _, _, _, _)
Phase1_uncovered(ms, ids, k, i, acc) ==
    IF i > Len(ids) \/ Len(acc.selected) >= k THEN acc
    ELSE IF matches_by_doc(ms, ids[i]) # <<>>
         THEN Phase1_uncovered(ms, ids, k, i + 1,
                     [selected |-> Append(acc.selected, matches_by_doc(ms, ids[i])[1]),
                      covered |-> acc.covered])
         ELSE Phase1_uncovered(ms, ids, k, i + 1, acc)

\* retriever.py:57-63
RECURSIVE Phase1(_, _, _, _, _)
Phase1(ms, ids, k, i, acc) ==
    IF i > Len(ids) \/ Len(acc.selected) >= k THEN acc
    ELSE IF matches_by_doc(ms, ids[i]) # <<>>
         THEN Phase1(ms, ids, k, i + 1,
                     [selected |-> Append(acc.selected, matches_by_doc(ms, ids[i])[1]),
                      covered |-> acc.covered \cup {ids[i]}])
         ELSE Phase1(ms, ids, k, i + 1, acc)

\* retriever.py:67-75
RECURSIVE Phase2(_, _, _, _, _)
Phase2(ms, ids, k, i, acc) ==
    IF i > Len(ids) \/ Len(acc.selected) >= k THEN acc
    ELSE IF /\ ids[i] \notin acc.covered
            /\ matches_by_doc(ms, ids[i]) # <<>>
            /\ Len(matches_by_doc(ms, ids[i])) > 1
         THEN Phase2(ms, ids, k, i + 1,
                     [selected |-> Append(acc.selected, matches_by_doc(ms, ids[i])[2]),
                      covered |-> acc.covered \cup {ids[i]}])
         ELSE Phase2(ms, ids, k, i + 1, acc)

\* mutant: the fill walks the pool from its lowest-ranked match upwards
RECURSIVE Phase3_from_end(_, _, _, _)
Phase3_from_end(ms, k, i, selected) ==
    IF i > Len(ms) \/ Len(selected) >= k THEN selected
    ELSE IF ~InSeq(ms[Len(ms) + 1 - i], selected)
         THEN Phase3_from_end(ms, k, i + 1, Append(selected, ms[Len(ms) + 1 - i]))
         ELSE Phase3_from_end(ms, k, i + 1, selected)

\* retriever.py:78-83
RECURSIVE Phase3(_, _, _, _)
Phase3(ms, k, i, selected) ==
    IF i > Len(ms) \/ Len(selected) >= k THEN selected
    ELSE IF ~InSeq(ms[i], selected)
         THEN Phase3(ms, k, i + 1, Append(selected, ms[i]))
         ELSE Phase3(ms, k, i + 1, selected)

\* mutant: the query is embedded before document_ids is looked at
retrieve_start_embed_first ==
    /\ rpc = "called"
    /\ calls' = [calls EXCEPT !.embed = @ + 1]
    /\ IF document_ids = <<>>
       THEN rpc' = "returned" /\ context' = <<>>
       ELSE rpc' = "query" /\ context' = context
    /\ UNCHANGED <<ingestVars, stats, query, document_ids, top_k, matches,
                   selected_matches, docs_covered>>

\* retriever.py:16-18
retrieve_start ==
    /\ rpc = "called"
    /\ IF document_ids = <<>>
       THEN rpc' = "returned" /\ context' = <<>>
       ELSE rpc' = "embed" /\ context' = context
    /\ UNCHANGED <<ingestVars, stats, query, document_ids, top_k, matches,
                   selected_matches, docs_covered, calls>>

\* retriever.py:20 generate_single_embedding: an error propagates
embed_query ==
    /\ rpc = "embed"
    /\ \E ok \in BOOLEAN :
         /\ rpc' = IF ok THEN "query" ELSE "raised"
         /\ calls' = [calls EXCEPT !.embed = @ + 1,
                                   !.failed = IF ok THEN @ ELSE "embed"]
    /\ UNCHANGED <<ingestVars, stats, query, document_ids, top_k, matches,
                   selected_matches, docs_covered, context>>

\* retriever.py:22-39
query_pool ==
    /\ rpc = "query"
    /\ \E ok \in BOOLEAN :
         LET pool == query_with_filter(store, Emb(query), document_ids,
                        extended_top_k(Len(document_ids), top_k), ok) IN
         /\ matches' = pool
         /\ calls' = [calls EXCEPT !.query = @ + 1,
                                   !.failed = IF ok THEN @ ELSE "query"]
         /\ IF pool = <<>>
            THEN rpc' = "returned" /\ context' = <<>>
            ELSE rpc' = "phase1" /\ context' = context
    /\ UNCHANGED <<ingestVars, stats, query, document_ids, top_k,
                   selected_matches, docs_covered>>

\* mutant: the selection is the head of the pool, in similarity order
phase1_by_similarity ==
    /\ rpc = "phase1"
    /\ LET sel == SubSeq(matches, 1, Min(top_k, Len(matches))) IN
         /\ selected_matches' = sel
         /\ docs_covered' = {sel[i].document_id : i \in 1..Len(sel)}
    /\ rpc' = "phase2"
    /\ UNCHANGED <<ingestVars, stats, query, document_ids, top_k, matches, context, calls>>

\* retriever.py:52-63
phase1 ==
    /\ rpc = "phase1"
    /\ LET r == Phase1(matches, document_ids, top_k, 1,
                       [selected |-> <<>>, covered |-> {}]) IN
         /\ selected_matches' = r.selected
         /\ docs_covered' = r.covered
    /\ rpc' = "phase2"
    /\ UNCHANGED <<ingestVars, stats, query, document_ids, top_k, matches, context, calls>>

\* retriever.py:65-75
phase2 ==
    /\ rpc = "phase2"
    /\ LET r == IF Len(selected_matches) < top_k
                THEN Phase2(matches, document_ids, top_k, 1,
                            [selected |-> selected_matches, covered |-> docs_covered])
                ELSE [selected |-> selected_matches, covered |-> docs_covered] IN
         /\ selected_matches' = r.selected
         /\ docs_covered' = r.covered
    /\ rpc' = "phase3"
    /\ UNCHANGED <<ingestVars, stats, query, document_ids, top_k, matches, context, calls>>

\* retriever.py:77-83
phase3 ==
    /\ rpc = "phase3"
    /\ selected_matches' = IF Len(selected_matches) < top_k
                           THEN Phase3(matches, top_k, 1, selected_matches)
                           ELSE selected_matches
    /\ rpc' = "assemble"
    /\ UNCHANGED <<ingestVars, stats, query, document_ids, top_k, matches,
                   docs_covered, context, calls>>

\* nothing logged yet
NoStats == [chunks |-> 0, docs_covered |-> 0, num_documents |-> 0]

\* mutant: coverage is taken over the documents that have a match
assemble_over_matched ==
    /\ rpc = "assemble"
    /\ LET rendered == SelectSeq(selected_matches, LAMBDA m : m.text # EmptyText) IN
         /\ context' = [i \in 1..Len(rendered) |->
                          [document_id |-> rendered[i].document_id,
                           text |-> rendered[i].text]]
         /\ stats' = [chunks |-> Len(rendered),
                      docs_covered |-> Cardinality(docs_covered),
                      num_documents |->
                         Cardinality({matches[i].document_id : i \in 1..Len(matches)})]
    /\ rpc' = "returned"
    /\ UNCHANGED <<ingestVars, query, document_ids, top_k, matches,
                   selected_matches, docs_covered, calls>>

\* retriever.py:85-99: one block per selected match with a non-empty text;
\* the log line reports len(context_parts), len(docs_covered) and
\* num_documents, and coverage_percentage = docs_covered / num_documents * 100
assemble ==
    /\ rpc = "assemble"
    /\ LET rendered == SelectSeq(selected_matches, LAMBDA m : m.text # EmptyText) IN
         /\ context' = [i \in 1..Len(rendered) |->
                          [document_id |-> rendered[i].document_id,
                           text |-> rendered[i].text]]
         /\ stats' = [chunks |-> Len(rendered),
                      docs_covered |-> Cardinality(docs_covered),
                      num_documents |-> Len(document_ids)]
    /\ rpc' = "returned"
    /\ UNCHANGED <<ingestVars, query, document_ids, top_k, matches,
                   selected_matches, docs_covered, calls>>

(***************************************************************************)
(* Collections a retrieval runs against: every document is absent, or was  *)
(* ingested completely, in the order of DocOrder, from a short text or     *)
(* from the long single-topic text.  Document ids are opaque, so fixing    *)
(* the ingestion order loses no case: document_ids ranges over every       *)
(* order.  The chunks of a short text are listed nearest class first:      *)
(* which chunk_index carries which class does not enter the selection.     *)
(* The collection is shared and persistent: a document may also be there   *)
(* as one record without text, which retrieve_context skips at line 92.    *)
(***************************************************************************)
RetrTexts ==
    {s \in SeqsOf(TextVals, 0, MaxChunks) : \A i \in 1..(Len(s) - 1) : s[i] <= s[i + 1]}
    \cup {[i \in 1..LongChunks |-> 0]}
    \cup {<<EmptyText>>}

IngestedRecords(d, pieces, attempt) ==
    LET chunks == chunk_text_with_metadata([extracted |-> TRUE, pieces |-> pieces], d) IN
    UploadRecords(chunks, generate_embeddings(pieces), d, attempt)

RECURSIVE StoreOf(_, _)
StoreOf(texts, i) ==
    IF i > Len(DocOrder) THEN <<>>
    ELSE IngestedRecords(DocOrder[i], texts[DocOrder[i]], "seed") \o StoreOf(texts, i + 1)

RetrStores == {StoreOf(t, 1) : t \in [Docs -> RetrTexts]}

InitRetrieve ==
    /\ store \in RetrStores
    /\ ingest = [p \in Procs |-> IdleIngest]
    /\ deleted = NoDelete
    /\ rpc = "called"
    /\ query \in Queries
    /\ document_ids \in SeqsOf(Docs, 0, MaxIds)
    /\ top_k \in 0..MaxTopK
    /\ matches = <<>>
    /\ selected_matches = <<>>
    /\ docs_covered = {}
    /\ context = <<>>
    /\ stats = NoStats
    /\ calls = [embed |-> 0, query |-> 0, failed |-> "none"]

NextRetrieve ==
    \/ retrieve_start
    \/ embed_query
    \/ query_pool
    \/ phase1
    \/ phase2
    \/ phase3
    \/ assemble

SpecRetrieve == InitRetrieve /\ [][NextRetrieve]_vars

RetrIdle ==
    /\ rpc = "idle"
    /\ query = 0
    /\ document_ids = <<>>
    /\ top_k = 0
    /\ matches = <<>>
    /\ selected_matches = <<>>
    /\ docs_covered = {}
    /\ context = <<>>
    /\ stats = NoStats
    /\ calls = [embed |-> 0, query |-> 0, failed |-> "none"]

Init ==
    /\ store = <<>>
    /\ ingest = [p \in Procs |-> IdleIngest]
    /\ deleted = NoDelete
    /\ RetrIdle

Next ==
    \/ \E p \in Procs : upload_document(p)
    \/ \E p \in Procs : add_document(p)
    \/ \E p \in Procs : convert_to_text(p)
    \/ \E p \in Procs : chunking(p)
    \/ \E p \in Procs : embed_call(p)
    \/ \E p \in Procs : embed_return(p)
    \/ \E p \in Procs : upload_add(p)
    \/ \E p \in Procs : upload_verify(p)
    \/ \E p \in Procs : complete(p)
    \/ \E p \in Procs : verify_after(p)
    \/ \E d \in IngestDocs : delete_document_from_chroma(d, FALSE)
    \/ \E d \in IngestDocs : delete_document(d, FALSE)

Spec == Init /\ [][Next]_vars

(***************************************************************************)
(* Delete operations, one after another, on a populated collection, with   *)
(* the outcome the caller sees recorded.                                   *)
(***************************************************************************)
InitDelete ==
    /\ store \in RetrStores
    /\ ingest = [p \in Procs |-> IdleIngest]
    /\ deleted = NoDelete
    /\ RetrIdle

NextDelete ==
    \/ \E d \in Docs : delete_document_from_chroma(d, TRUE)
    \/ \E d \in Docs : delete_document(d, TRUE)

SpecDelete == InitDelete /\ [][NextDelete]_vars

(***************************************************************************)
(* One generate_embeddings call on a document of many chunks: the chunk    *)
(* texts are pairwise different, so a vector names the text it embeds.     *)
(***************************************************************************)
MaxTexts == (MaxBatches - 1) * batch_size + 1

LongFile(n) == [extracted |-> TRUE, pieces |-> [j \in 1..n |-> j]]

InitEmbed ==
    /\ store = <<>>
    /\ deleted = NoDelete
    /\ RetrIdle
    /\ \E n \in 0..MaxTexts, d \in IngestDocs :
         ingest = [p \in Procs |->
            IF p = CHOOSE q \in Procs : TRUE
            THEN [IdleIngest EXCEPT !.pc = "embedding", !.kind = "script",
                     !.document_id = d, !.file = LongFile(n), !.attempt = p,
                     !.fresh = TRUE,
                     !.chunks = chunk_text_with_metadata(LongFile(n), d)]
            ELSE IdleIngest]

NextEmbed ==
    \/ \E p \in Procs : embed_call(p)
    \/ \E p \in Procs : embed_return(p)

SpecEmbed == InitEmbed /\ [][NextEmbed]_vars

(***************************************************************************)
(* One retrieve_context call over a collection of many documents: the      *)
(* first D documents of the collection are listed                          *)
(***************************************************************************)
PoolDocNames == <<"d1", "d2", "d3", "d4", "d5", "d6", "d7", "d8", "d9", "d10",
                  "d11", "d12", "d13", "d14", "d15", "d16">>

RECURSIVE PoolStore(_, _)
PoolStore(c, i) ==
    IF i > MaxPoolDocs THEN <<>>
    ELSE IngestedRecords(PoolDocNames[i], [j \in 1..c |-> 0], "seed") \o PoolStore(c, i + 1)

InitPool ==
    /\ \E c \in 1..PoolChunks : store = PoolStore(c, 1)
    /\ ingest = [p \in Procs |-> IdleIngest]
    /\ deleted = NoDelete
    /\ rpc = "called"
    /\ query \in Queries
    /\ \E D \in 1..MaxPoolDocs : document_ids = SubSeq(PoolDocNames, 1, D)
    /\ top_k \in 1..MaxPoolTopK
    /\ matches = <<>>
    /\ selected_matches = <<>>
    /\ docs_covered = {}
    /\ context = <<>>
    /\ stats = NoStats
    /\ calls = [embed |-> 0, query |-> 0, failed |-> "none"]

SpecPool == InitPool /\ [][NextRetrieve]_vars

(***************************************************************************)
(* One upload_to_chroma call: the chunk list and the embedding list are    *)
(* its arguments, each of any length                                       *)
(***************************************************************************)
UploadStores == {StoreOf(t, 1) : t \in [Docs -> {<<>>, <<0>>}]}

InitUpload ==
    /\ store \in UploadStores
    /\ deleted = NoDelete
    /\ RetrIdle
    /\ \E d \in IngestDocs, pieces, embeddings \in SeqsOf(IngestTextVals, 0, MaxChunks) :
         ingest = [p \in Procs |->
            IF p = CHOOSE q \in Procs : TRUE
            THEN [IdleIngest EXCEPT !.pc = "storing", !.kind = "script",
                     !.document_id = d, !.attempt = p,
                     !.file = [extracted |-> TRUE, pieces |-> pieces],
                     !.fresh = (CountOf(store, d) = 0),
                     !.chunks = chunk_text_with_metadata(
                                   [extracted |-> TRUE, pieces |-> pieces], d),
                     !.embeddings = embeddings]
            ELSE IdleIngest]

NextUpload ==
    \/ \E p \in Procs : upload_add(p)
    \/ \E p \in Procs : upload_verify(p)

SpecUpload == InitUpload /\ [][NextUpload]_vars

(***************************************************************************)
(* Properties                                                              *)
(***************************************************************************)
IdsDistinct == \A i, j \in 1..Len(document_ids) : document_ids[i] = document_ids[j] => i = j
SelectionDone == rpc \in {"assemble", "returned"}
InFlight(p) == ingest[p].pc \in {"chunking", "embedding", "embedding_wait", "storing", "verifying"}
Quiescent == \A p \in Procs : ~InFlight(p) /\ ingest[p].pc # "converting"
WrittenBy(p) == SelectSeq(store, LAMBDA r : r.attempt = ingest[p].attempt)
Succeeded(p) == ingest[p].pc \in {"stored", "complete", "checked"}

\* C1: when the listed ids are distinct, 1 <= D <= top_k, every listed
\* document has a stored chunk and neither the provider nor the store failed,
\* the selection holds a match of every listed document.
C1_DiversityCoverage ==
    (/\ rpc = "returned"
     /\ calls.failed = "none"
     /\ IdsDistinct
     /\ Len(document_ids) >= 1
     /\ Len(document_ids) <= top_k
     /\ \A i \in 1..Len(document_ids) : CountOf(store, document_ids[i]) >= 1)
    => \A i \in 1..Len(document_ids) :
          \E j \in 1..Len(selected_matches) :
             selected_matches[j].document_id = document_ids[i]

\* C2: an ingestion attempt that ended in the error outcome has left no
\* record of its own in the collection.
C2_NoPartialRecords ==
    \A p \in Procs : ingest[p].pc = "error" => WrittenBy(p) = <<>>

\* C3: an ingestion is successful only if the re-query counted exactly the
\* records written, and a re-query that counted anything else ends in the
\* error outcome.
C3_SuccessOnlyIfVerified ==
    \A p \in Procs :
       /\ Succeeded(p) => ingest[p].stored_count = ingest[p].nids
       /\ (ingest[p].stored_count # -1 /\ ingest[p].stored_count # ingest[p].nids)
             => ingest[p].pc = "error"

C3_Witness ==
    \E p, q \in Procs :
       /\ ingest[p].pc = "complete" /\ ingest[p].nids >= 1
       /\ ingest[p].stored_count = ingest[p].nids
       /\ ingest[q].pc = "error" /\ ingest[q].stage = "verification"
       /\ ingest[q].stored_count >= 0 /\ ingest[q].stored_count < ingest[q].nids

\* C4: with a non-empty document_ids, a failing provider call or store query
\* makes retrieve_context return the empty context; nothing is raised.
C4_RetrievalErrorsDegrade ==
    (document_ids # <<>> /\ calls.failed # "none")
    => (rpc = "returned" /\ context = <<>>)

\* C5: no two ingestions of the same document_id are in flight together.
C5_OneInFlightPerDocument ==
    \A p, q \in Procs :
       (p # q /\ InFlight(p) /\ InFlight(q))
       => ingest[p].document_id # ingest[q].document_id

\* C6: two failed ingestions that failed at different stages report
\* different outcomes.
C6_StagesDistinguishable ==
    \A p, q \in Procs :
       (/\ ingest[p].pc = "error" /\ ingest[q].pc = "error"
        /\ ingest[p].stage # ingest[q].stage)
       => ingest[p].message # ingest[q].message

\* C7: the selection has min(top_k, M) matches, M the size of the pool.
C7_SelectionLength ==
    SelectionDone => Len(selected_matches) = Min(top_k, Len(matches))

\* C8: with an empty document_ids the call returns the empty context and
\* makes no provider call and no store query.
C8_EmptyIdsNoCalls ==
    (document_ids = <<>> /\ rpc # "called" /\ rpc # "idle")
    => /\ rpc = "returned"
       /\ context = <<>>
       /\ calls.embed = 0
       /\ calls.query = 0

C8_Witness == document_ids = <<>> /\ rpc = "returned" /\ store # <<>> /\ top_k >= 1

\* C9: after a successful ingestion of n >= 1 chunks under an id that had no
\* record, verify_vectors_persisted(id, n), run with nothing else touching
\* the id in between and answered by the store, returns True.
C9_RoundTrip ==
    \A p \in Procs :
       (/\ ingest[p].pc = "checked"
        /\ ingest[p].fresh
        /\ ingest[p].clean
        /\ Len(ingest[p].chunks) >= 1
        /\ ingest[p].rt # "unavailable")
       => ingest[p].rt = "true"

C9_Witness ==
    \E p \in Procs :
       /\ ingest[p].pc = "checked" /\ ingest[p].fresh /\ ingest[p].clean
       /\ Len(ingest[p].chunks) = MaxChunks
       /\ ingest[p].rt = "true"

\* C10: whenever no ingestion is running, the records of every document in
\* the collection have chunk_index exactly 0..N-1 and chunk_total = N, N the
\* number of its records.
C10_StoreChunkInvariant ==
    Quiescent =>
       \A d \in Docs :
          LET rs == RecordsOf(store, d) IN
          /\ {rs[i].chunk_index : i \in 1..Len(rs)} = 0..(Len(rs) - 1)
          /\ \A i \in 1..Len(rs) : rs[i].chunk_total = Len(rs)

\* C11: the chunks chunk_text_with_metadata returned carry chunk_index
\* 0..N-1 in order and chunk_total = N, N their number; for an empty or
\* blank text it returned the empty sequence and the ingestion went on
\* (no error raised by the chunker).
C11_ChunkMetadata ==
    \A p \in Procs :
       LET cs == ingest[p].chunks IN
       /\ \A i \in 1..Len(cs) :
             cs[i].chunk_index = i - 1 /\ cs[i].chunk_total = Len(cs)
       /\ (ingest[p].pc = "embedding" /\ ingest[p].file.pieces = <<>>) => cs = <<>>
       /\ (ingest[p].pc = "embedding" /\ ingest[p].file.pieces # <<>>)
             => Len(cs) = Len(ingest[p].file.pieces)

C11_Witness ==
    \E p, q \in Procs :
       /\ ingest[p].pc = "embedding" /\ Len(ingest[p].chunks) = MaxChunks
       /\ ingest[p].chunks[MaxChunks].chunk_index = MaxChunks - 1
       /\ ingest[q].pc = "embedding" /\ ingest[q].file.extracted
       /\ ingest[q].file.pieces = <<>> /\ ingest[q].chunks = <<>>

\* C12: a step of an ingestion of document d, whatever its outcome, leaves
\* the stored records of every other document e exactly as they were.
C12_CrossDocumentIsolation ==
    [][\A p \in Procs :
          ingest'[p].pc # ingest[p].pc
          => \A e \in Docs \ {ingest'[p].document_id} :
                RecordsOf(store', e) = RecordsOf(store, e)]_vars

C12_Witness ==
    \E p, q \in Procs :
       /\ ingest[p].document_id # ingest[q].document_id
       /\ ingest[q].pc = "complete" /\ ingest[q].nids = MaxChunks
       /\ RecordsOf(store, ingest[q].document_id) = WrittenBy(q)
       /\ Len(WrittenBy(q)) = MaxChunks
       /\ ingest[p].pc = "error" /\ ingest[p].stage = "verification"
       /\ WrittenBy(p) # <<>>

\* the listed documents with a match in the pool, each once, in the order
\* the caller listed them
RECURSIVE ListedWithMatch(_, _)
ListedWithMatch(i, acc) ==
    IF i > Len(document_ids) THEN acc
    ELSE IF matches_by_doc(matches, document_ids[i]) # <<>> /\ ~InSeq(document_ids[i], acc)
         THEN ListedWithMatch(i + 1, Append(acc, document_ids[i]))
         ELSE ListedWithMatch(i + 1, acc)

\* the first match of document d in the pool, in the order the store returned it
FirstMatchOf(d) ==
    matches[CHOOSE i \in 1..Len(matches) :
               /\ matches[i].document_id = d
               /\ \A j \in 1..(i - 1) : matches[j].document_id # d]

\* C13: with L the listed documents that have a match in the pool, in
\* caller-supplied order, the first min(top_k, |L|) entries of the selection
\* are the first-returned match of L[1], L[2], ... in that order.
C13_Phase1Ordering ==
    SelectionDone =>
       LET L == ListedWithMatch(1, <<>>) IN
       \A j \in 1..Min(top_k, Len(L)) :
          /\ j <= Len(selected_matches)
          /\ selected_matches[j] = FirstMatchOf(L[j])

\* C14: with pairwise distinct listed ids and top_k >= 1, when at least
\* top_k listed documents have a match in the pool, the selection is exactly
\* top_k matches of top_k pairwise different listed documents.
C14_OnePerDocument ==
    (/\ SelectionDone
     /\ IdsDistinct
     /\ top_k >= 1
     /\ Len(ListedWithMatch(1, <<>>)) >= top_k)
    => /\ Len(selected_matches) = top_k
       /\ \A i, j \in 1..Len(selected_matches) :
             selected_matches[i].document_id = selected_matches[j].document_id => i = j
       /\ \A i \in 1..Len(selected_matches) :
             InSeq(selected_matches[i].document_id, document_ids)

C14_Witness ==
    /\ rpc = "returned"
    /\ IdsDistinct
    /\ top_k = MaxIds
    /\ Len(document_ids) = top_k
    /\ \A d \in Docs : CountOf(store, d) = 1
    /\ \A d \in Docs : \E i \in 1..Len(selected_matches) : selected_matches[i].document_id = d
    /\ Len(selected_matches) = top_k

\* C15: with a non-empty document_ids, every match of the pool, every
\* selected match and every rendered block belongs to a listed document.
C15_FilterSoundness ==
    document_ids # <<>>
    => /\ \A i \in 1..Len(matches) : InSeq(matches[i].document_id, document_ids)
       /\ \A i \in 1..Len(selected_matches) :
             InSeq(selected_matches[i].document_id, document_ids)
       /\ \A i \in 1..Len(context) : InSeq(context[i].document_id, document_ids)

C15_Witness ==
    /\ rpc = "returned"
    /\ Len(document_ids) = 1
    /\ top_k >= 2
    /\ Len(selected_matches) = 2
    /\ \E d \in Docs : ~InSeq(d, document_ids) /\ CountOf(store, d) >= 1
                         /\ store[1].document_id = d

\* C17: generate_embeddings has at most one provider call outstanding; its
\* k-th call carries texts[50(k-1) .. 50k-1] (0-based), at most 50 texts; when
\* it returns it has made ceil(n/50) calls, none for n = 0, and position j of
\* the result is the vector of texts[j].
C17_EmbeddingBatches ==
    \A p \in Procs :
       LET texts == Texts(p)
           n == Len(texts)
           bs == ingest[p].batches IN
       /\ ingest[p].inflight \in {0, 1}
       /\ ingest[p].inflight = 1 <=> ingest[p].pc = "embedding_wait"
       /\ \A k \in 1..Len(bs) :
             /\ Len(bs[k]) >= 1 /\ Len(bs[k]) <= batch_size
             /\ Len(bs[k]) = Min(batch_size, n - batch_size * (k - 1))
             /\ \A j \in 1..Len(bs[k]) : bs[k][j] = texts[batch_size * (k - 1) + j]
       /\ ingest[p].pc = "storing"
             => /\ Len(bs) = (n + batch_size - 1) \div batch_size
                /\ Len(ingest[p].embeddings) = n
                /\ \A j \in 1..n : ingest[p].embeddings[j] = Emb(texts[j])

C17_Witness ==
    \E p \in Procs :
       /\ ingest[p].pc = "storing"
       /\ Len(ingest[p].chunks) = MaxTexts
       /\ Len(ingest[p].batches) = MaxBatches
       /\ Len(ingest[p].batches[MaxBatches]) = 1
       /\ ingest[p].embeddings[MaxTexts] = Emb(ingest[p].chunks[MaxTexts].text)

\* C18: once a batch call of an ingestion has failed, generate_embeddings
\* has handed no vector to the ingestion, not even those of the batches
\* that had succeeded, and the ingestion has ended in the error outcome
\* without a store add: no record of it is in the collection.
C18_EmbeddingFailureAtomic ==
    \A p \in Procs :
       ingest[p].stage = "embedding"
       => /\ ingest[p].pc = "error"
          /\ ingest[p].embeddings = <<>>
          /\ ingest[p].nids = 0
          /\ WrittenBy(p) = <<>>

C18_Witness ==
    \E p \in Procs :
       /\ ingest[p].pc = "error" /\ ingest[p].stage = "embedding"
       /\ Len(ingest[p].batches) = MaxBatches
       /\ Len(ingest[p].all_embeddings) = (MaxBatches - 1) * batch_size
       /\ ingest[p].embeddings = <<>>

\* C19: a delete operation on a document_id that has no record, answered by
\* the store, leaves the collection as it was and reports no error.
C19_DeleteNothingIsNoOp ==
    (deleted.op # "none" /\ deleted.zero /\ deleted.store_ok)
    => /\ ~deleted.changed
       /\ deleted.status \in {"True", "200"}

\* C20: a verify_vectors_persisted(d, n) call, inside upload_to_chroma or by
\* a caller after 'complete', leaves the collection as it was and returns
\* True exactly when the store answered and holds exactly n records of d.
C20_VerifyExact ==
    [][\A p \in Procs :
          LET count == CountOf(store, ingest[p].document_id) IN
          /\ (ingest[p].pc = "verifying" /\ ingest'[p].pc # "verifying")
             => /\ store' = store
                /\ ingest'[p].pc = "stored"
                     <=> (ingest'[p].stored_count # -1 /\ count = ingest[p].nids)
          /\ (ingest[p].pc = "complete" /\ ingest'[p].pc = "checked")
             => /\ store' = store
                /\ ingest'[p].rt = "true"
                     <=> (ingest'[p].rt # "unavailable" /\ count = Len(ingest[p].chunks))]_vars

C20_Witness ==
    \E p, q \in Procs :
       /\ ingest[p].pc = "checked" /\ ingest[p].rt = "false"
       /\ CountOf(store, ingest[p].document_id) > Len(ingest[p].chunks)
       /\ Len(ingest[p].chunks) >= 1
       /\ ingest[q].pc = "checked" /\ ingest[q].rt = "unavailable"

\* the distinct documents of the selected matches
SelectedDocs == {selected_matches[i].document_id : i \in 1..Len(selected_matches)}

\* the distinct documents of the rendered blocks
RenderedDocs == {context[i].document_id : i \in 1..Len(context)}

\* retrieve_context went through to its log line
StatsLogged == rpc = "returned" /\ matches # <<>>

\* C21: the logged coverage, docs_covered / num_documents, equals (distinct
\* documents of the selection) / (listed documents with a match in the pool).
C21_CoverageOverMatched ==
    StatsLogged =>
       stats.docs_covered * Len(ListedWithMatch(1, <<>>))
          = Cardinality(SelectedDocs) * stats.num_documents

\* C21 as amended: the logged coverage is (distinct documents of the
\* selection) / (entries of document_ids), so a listed document without a
\* match lowers it.
C21_CoverageOverListed ==
    StatsLogged =>
       /\ stats.docs_covered = Cardinality(SelectedDocs)
       /\ stats.num_documents = Len(document_ids)

C21_Witness ==
    /\ StatsLogged
    /\ IdsDistinct
    /\ Len(document_ids) = MaxIds
    /\ Len(ListedWithMatch(1, <<>>)) = 1
    /\ stats.docs_covered = 1
    /\ stats.num_documents = MaxIds

\* C22: the logged chunk count and documents-covered count are those of the
\* rendered blocks: a selected match without text adds to neither.
C22_StatsOverRendered ==
    StatsLogged =>
       /\ stats.chunks = Len(context)
       /\ stats.docs_covered = Cardinality(RenderedDocs)

\* C23: when upload_to_chroma has just returned True for document d, every
\* id (d, i) of the records it built is held by the record this attempt
\* supplied (an existing record with that id was overwritten).
C23_UpsertOnReingestion ==
    \A p \in Procs :
       (ingest[p].pc = "stored" /\ ingest[p].clean)
       => \A i \in 0..(ingest[p].nids - 1) :
             \E j \in 1..Len(store) :
                /\ store[j].id = <<ingest[p].document_id, i>>
                /\ store[j].attempt = ingest[p].attempt

\* C24: an upload whose text extraction failed is, once the conversion step
\* is over, in the error outcome of the extraction stage, and it has made
\* no chunk, handed no batch to the embedding provider and written no
\* record.
C24_ExtractionFailureAborts ==
    \A p \in Procs :
       (ingest[p].kind = "upload" /\ ~ingest[p].file.extracted
          /\ ingest[p].pc # "converting")
       => /\ ingest[p].pc = "error"
          /\ ingest[p].stage = "extraction"
          /\ ingest[p].message = ExtractMsg
          /\ ingest[p].chunks = <<>>
          /\ ingest[p].batches = <<>>
          /\ ingest[p].nids = 0
          /\ WrittenBy(p) = <<>>

C24_Witness ==
    \E p, q \in Procs :
       /\ ingest[p].kind = "upload" /\ ~ingest[p].file.extracted
       /\ ingest[p].pc = "error" /\ ingest[p].stage = "extraction"
       /\ ingest[q].kind = "upload" /\ ingest[q].pc = "complete"
       /\ WrittenBy(q) # <<>>

\* the matches of the pool that are not in the selection, in pool order
NotYetSelected == SelectSeq(matches, LAMBDA m : ~InSeq(m, selected_matches))

\* C25: the Phase 3 step appends to the selection the not-yet-selected
\* matches of the pool in the pool's rank order, as many as fit under top_k
\* (all of them when the pool runs out first), and changes nothing else of
\* the selection.
C25_Phase3Fill ==
    [][rpc = "phase3"
       => LET n == Min(Len(NotYetSelected),
                       Max(top_k - Len(selected_matches), 0)) IN
          selected_matches' = selected_matches \o SubSeq(NotYetSelected, 1, n)]_vars

C25_Witness ==
    /\ rpc = "assemble" /\ IdsDistinct
    /\ Len(ListedWithMatch(1, <<>>)) = 2
    /\ Len(selected_matches) = 3 /\ top_k = 3
    /\ Len(matches) > top_k
    /\ selected_matches[2] = matches[1]
    /\ selected_matches[3] = matches[2]

\* C26: the selection built by retrieve_context never holds the same match
\* (the same vector id) at two positions, whatever the store, the list
\* (repeated ids allowed) and top_k.
C26_NoDuplicateMatch ==
    \A i, j \in 1..Len(selected_matches) :
       selected_matches[i].id = selected_matches[j].id => i = j

\* C29: the Phase 2 step of retrieve_context leaves the selection and the
\* covered set as Phase 1 left them: it never appends a match.
C29_Phase2AppendsNothing ==
    [][rpc = "phase2"
       => /\ selected_matches' = selected_matches
          /\ docs_covered' = docs_covered]_vars

C29_Witness ==
    /\ rpc = "phase3" /\ IdsDistinct
    /\ Len(document_ids) >= 2
    /\ Len(selected_matches) < top_k
    /\ \E i \in 1..Len(document_ids) :
          Len(matches_by_doc(matches, document_ids[i])) > 1
    /\ \E i \in 1..Len(document_ids) :
          matches_by_doc(matches, document_ids[i]) = <<>>

\* C30: when the selection phases of a retrieve_context call with a
\* non-empty document_ids are over, docs_covered is exactly the set of
\* document_ids of the selected matches (so no match the Phase 3 fill
\* appended belongs to a document outside docs_covered).
C30_CoveredIsSelectedDocs ==
    (SelectionDone /\ document_ids # <<>>) => docs_covered = SelectedDocs

C30_Witness ==
    /\ rpc = "returned" /\ IdsDistinct
    /\ Cardinality(docs_covered) = 2
    /\ Len(selected_matches) > Len(ListedWithMatch(1, <<>>))
    /\ \E d \in Docs :
          /\ CountOf(store, d) > 0
          /\ \A i \in 1..Len(document_ids) : document_ids[i] # d

\* the stored records of the listed documents
ListedRecords ==
    SelectSeq(store, LAMBDA r : \E i \in 1..Len(document_ids) : document_ids[i] = r.document_id)

\* C27: a retrieve_context call with top_k >= 1 over a non-empty list whose
\* store query answered selects at least min(top_k, number of stored
\* records of the listed documents) matches: the pool it asked for is never
\* smaller than top_k.
C27_PoolCoversTopK ==
    (SelectionDone /\ calls.failed = "none" /\ top_k >= 1 /\ document_ids # <<>>)
    => /\ extended_top_k(Len(document_ids), top_k) >= top_k
       /\ Len(selected_matches) >= Min(top_k, Len(ListedRecords))

\* C28: when upload_to_chroma has returned True, the number of records
\* stored for the document equals the number of chunks it was given, also
\* when it was given fewer embeddings than chunks.
C28_SuccessStoresEveryChunk ==
    \A p \in Procs :
       ingest[p].pc = "stored"
       => /\ ingest[p].stored_count = Len(ingest[p].chunks)
          /\ CountOf(store, ingest[p].document_id) = Len(ingest[p].chunks)
====
